---- MODULE Spec2Model ----
(***************************************************************************)
(* Model of pyathenapp/loadsim.py: class LoadSim.                          *)
(*                                                                         *)
(* LoadSim.__init__ scans a base directory with four glob patterns,        *)
(* resolves the athinput and hst roles, parses the input file and derives  *)
(* the sorted list of athdf output numbers.  LoadSim.load_athdf resolves a *)
(* snapshot number to one file, decodes it and projects the raw table to a *)
(* dataset.                                                                *)
(*                                                                         *)
(* File names are sequences of one-character strings, so that glob         *)
(* matching, str.strip, slicing, int() and str.format are computed as      *)
(* Python computes them.  Lengths are in units of 1/100 (x1f, RootGridX1). *)
(***************************************************************************)
EXTENDS Integers, Sequences, FiniteSets, TLC

VARIABLES
    dir,        \* the names of the files in the base directory (loadsim.py:51)
    dirExists,  \* whether the base directory exists (loadsim.py:41)
    ctor,       \* "new", "returned", or "ValueError" raised by int() (loadsim.py:75)
    self,       \* the attributes assigned to the LoadSim object (loadsim.py:41-76)
    out,        \* the lines printed by the constructor (loadsim.py:55-70)
    built,      \* history: self as the constructor left it
    call        \* per call site of load_athdf: position, num, fmatches, ds

vars == <<dir, dirExists, ctor, self, out, built, call>>

(***************************************************************************)
(* Bounds of the model.                                                    *)
(***************************************************************************)
MaxFiles == 3
NumCallers == 2

Callers == 1..NumCallers

None == [none |-> TRUE]

(***************************************************************************)
(* Characters and strings.                                                 *)
(***************************************************************************)
\* the characters of the modelled names, in code-point order
CodePoints == <<".", "0", "1", "2", "3", "4", "5", "6", "7", "8", "9",
                "a", "d", "f", "h", "i", "n", "p", "q", "r", "s", "t", "u">>

Ord(c) == CHOOSE i \in 1..Len(CodePoints) : CodePoints[i] = c

DigitChars == <<"0", "1", "2", "3", "4", "5", "6", "7", "8", "9">>

IsDigit(c) == \E i \in 1..10 : DigitChars[i] = c

DigitVal(c) == (CHOOSE i \in 1..10 : DigitChars[i] = c) - 1

\* str < str: comparison by code points, a proper prefix is smaller
RECURSIVE StrLess(_, _)
StrLess(a, b) ==
    IF b = <<>> THEN FALSE
    ELSE IF a = <<>> THEN TRUE
    ELSE IF Head(a) = Head(b) THEN StrLess(Tail(a), Tail(b))
    ELSE Ord(Head(a)) < Ord(Head(b))

\* s.strip(chars): drop leading and trailing characters that are in chars
RECURSIVE LStrip(_, _)
LStrip(s, chars) ==
    IF s # <<>> /\ Head(s) \in chars THEN LStrip(Tail(s), chars) ELSE s

RECURSIVE RStrip(_, _)
RStrip(s, chars) ==
    IF s # <<>> /\ s[Len(s)] \in chars
    THEN RStrip(SubSeq(s, 1, Len(s) - 1), chars)
    ELSE s

Strip(s, chars) == RStrip(LStrip(s, chars), chars)

\* s[-n:]
LastChars(s, n) == IF Len(s) <= n THEN s ELSE SubSeq(s, Len(s) - n + 1, Len(s))

\* int(s) over the modelled characters: a non-empty string of decimal digits
\* gives its value, anything else raises ValueError
RECURSIVE DigitsValue(_)
DigitsValue(s) ==
    IF s = <<>> THEN 0
    ELSE 10 * DigitsValue(SubSeq(s, 1, Len(s) - 1)) + DigitVal(s[Len(s)])

ParseInt(s) ==
    IF s # <<>> /\ \A i \in 1..Len(s) : IsDigit(s[i])
    THEN [ok |-> TRUE, val |-> DigitsValue(s)]
    ELSE [ok |-> FALSE, val |-> 0]

\* the decimal digits of a non-negative integer
RECURSIVE Decimal(_)
Decimal(n) ==
    IF n < 10 THEN <<DigitChars[n + 1]>>
    ELSE Decimal(n \div 10) \o <<DigitChars[(n % 10) + 1]>>

RECURSIVE ZeroPad(_, _)
ZeroPad(s, width) == IF Len(s) >= width THEN s ELSE ZeroPad(<<"0">> \o s, width)

\* the width of the output number in a file name
NumWidth == 5

\* '{:05d}'.format(num), num >= 0
Format05d(num) == ZeroPad(Decimal(num), NumWidth)

\* fnmatch of one path component against a pattern whose only wildcard is *
RECURSIVE GlobMatch(_, _)
GlobMatch(pat, s) ==
    IF pat = <<>> THEN s = <<>>
    ELSE IF Head(pat) = "*"
         THEN GlobMatch(Tail(pat), s) \/ (s # <<>> /\ GlobMatch(pat, Tail(s)))
         ELSE s # <<>> /\ Head(s) = Head(pat) /\ GlobMatch(Tail(pat), Tail(s))

(***************************************************************************)
(* The file names a base directory may hold.                               *)
(***************************************************************************)
DotAthdf == <<".", "a", "t", "h", "d", "f">>
DotHst == <<".", "h", "s", "t">>
DotRst == <<".", "r", "s", "t">>
AthinputDot == <<"a", "t", "h", "i", "n", "p", "u", "t", ".">>

InputA == AthinputDot \o <<"a">>
InputB == AthinputDot \o <<"d">>
HstP == <<"p">> \o DotHst
HstQ == <<"q">> \o DotHst
RstP == <<"p", ".", "0", "0", "0", "0", "1">> \o DotRst
Athdf0 == <<"p", ".", "0", "0", "0", "0", "0">> \o DotAthdf
Athdf3 == <<"p", ".", "0", "0", "0", "0", "3">> \o DotAthdf
Athdf10 == <<"p", ".", "0", "0", "0", "1", "0">> \o DotAthdf
AthdfQ3 == <<"q", ".", "0", "0", "0", "0", "3">> \o DotAthdf
AthdfNoDot3 == <<"p", "0", "0", "0", "0", "3">> \o DotAthdf
AthdfWide == <<"p", ".", "1", "0", "0", "0", "0", "0">> \o DotAthdf
AthdfNoNum == <<"p">> \o DotAthdf

FileNames == {InputA, InputB, HstP, HstQ, RstP, Athdf0, Athdf3, Athdf10,
              AthdfQ3, AthdfNoDot3, AthdfWide, AthdfNoNum}

\* the snapshot numbers the callers ask for
LoadNums == {0, 3, 100000}

\* Path(basedir), as its components
BaseDir == <<"data", "run">>

(***************************************************************************)
(* pathlib: Path.glob and the order of paths.                              *)
(***************************************************************************)
\* the set of names basedir.glob(pattern) yields; a directory that does not
\* exist yields nothing
Glob(pat) == IF dirExists THEN {f \in dir : GlobMatch(pat, f)} ELSE {}

\* the orders in which the file system may list a set of names
Listings(S) ==
    {l \in [1..Cardinality(S) -> S] : \A i, j \in 1..Cardinality(S) : l[i] = l[j] => i = j}

\* sorted(paths)
SortedPaths(l) == SortSeq(l, StrLess)

Patterns == [athinput |-> AthinputDot \o <<"*">>,
             hst |-> <<"*">> \o DotHst,
             athdf |-> <<"*">> \o DotAthdf,
             rst |-> <<"*">> \o DotRst]

(***************************************************************************)
(* The collaborators of athena_read.                                       *)
(***************************************************************************)
\* athinput(path): the nested mapping of the input file
athinput(path) ==
    IF path = InputA
    THEN [job |-> [problem_id |-> "p"], mesh |-> [nx1 |-> 2, x1min |-> 0, x1max |-> 100]]
    ELSE [job |-> [problem_id |-> "q"], mesh |-> [nx1 |-> 4, x1min |-> -100, x1max |-> 100]]

RawP(t, x1f) ==
    [VariableNames |-> <<"rho", "press">>,
     rho |-> <<<<<<1 + t, 2 + t>>>>>>,
     press |-> <<<<<<3, 4 + t>>>>>>,
     x1v |-> <<(x1f[1] + x1f[2]) \div 2, (x1f[2] + x1f[3]) \div 2>>,
     x2v |-> <<0>>,
     x3v |-> <<150>>,
     x1f |-> x1f,
     x2f |-> <<-100, 100>>,
     x3f |-> <<0, 300>>,
     MaxLevel |-> 0,
     MeshBlockSize |-> <<2, 1, 1>>,
     NumCycles |-> 10 * t,
     NumMeshBlocks |-> 1,
     RootGridSize |-> <<2, 1, 1>>,
     RootGridX1 |-> <<x1f[1], x1f[3]>>,
     RootGridX2 |-> <<-100, 100>>,
     RootGridX3 |-> <<0, 300>>,
     Time |-> t]

RawQ ==
    [VariableNames |-> <<"rho">>,
     rho |-> <<<<<<7>>, <<8>>>>>>,
     x1v |-> <<20>>,
     x2v |-> <<5, 15>>,
     x3v |-> <<-5>>,
     x1f |-> <<0, 40>>,
     x2f |-> <<0, 10, 20>>,
     x3f |-> <<-10, 0>>,
     MaxLevel |-> 1,
     MeshBlockSize |-> <<1, 2, 1>>,
     NumCycles |-> 4,
     NumMeshBlocks |-> 2,
     RootGridSize |-> <<1, 2, 1>>,
     RootGridX1 |-> <<0, 40>>,
     RootGridX2 |-> <<0, 20>>,
     RootGridX3 |-> <<-10, 0>>,
     Time |-> 2]

\* athdf(path): the raw table decoded from a snapshot file
athdf(path) ==
    CASE path = Athdf0 -> RawP(0, <<0, 50, 100>>)
      [] path = Athdf3 -> RawP(3, <<0, 50, 100>>)
      [] path = Athdf10 -> RawP(10, <<0, 50, 100>>)
      [] path = AthdfWide -> RawP(5, <<0, 10, 30>>)
      [] OTHER -> RawQ

(***************************************************************************)
(* LoadSim.__init__                                                        *)
(***************************************************************************)
List(items) == [kind |-> "list", items |-> items]
PathOf(p) == [kind |-> "path", path |-> p]

\* which branch the check of the input files takes: 0 matches, more than one,
\* or exactly one
InputCaseFirstWins(m) == IF Len(m) = 0 THEN "none" ELSE "one"
InputCaseWarnsOnOne(m) == IF Len(m) = 0 THEN "none" ELSE IF Len(m) >= 1 THEN "many" ELSE "one"
InputCase(m) == IF Len(m) = 0 THEN "none" ELSE IF Len(m) > 1 THEN "many" ELSE "one"

\* which branch the check of the history dumps takes
HstCaseSilentOnNone(m) == IF Len(m) > 1 THEN "many" ELSE IF Len(m) = 1 THEN "one" ELSE "quiet"
HstCase(m) == IF Len(m) = 0 THEN "none" ELSE IF Len(m) > 1 THEN "many" ELSE "one"

InputWarning(case) ==
    IF case = "none" THEN <<"WARNING: found no input file">>
    ELSE IF case = "many" THEN <<"WARNING: found more than one input file">>
    ELSE <<>>

HstWarning(case) ==
    IF case = "none" THEN <<"WARNING: found no history dump">>
    ELSE IF case = "many" THEN <<"WARNING: found more than one history dumps">>
    ELSE <<>>

\* int(p.name.strip('.athdf')[-5:])
OutputNumber(name) ==
    ParseInt(LastChars(Strip(name, {DotAthdf[i] : i \in 1..Len(DotAthdf)}), NumWidth))

\* sorted(map(..., listing)) once every name has parsed
NumsUnsorted(l) == [i \in 1..Len(l) |-> OutputNumber(l[i]).val]
Nums(l) == SortSeq([i \in 1..Len(l) |-> OutputNumber(l[i]).val], <)

\* the attributes the constructor has assigned when it ends, by return or by
\* the ValueError of int()
Constructed(la, lh, ld, lr, ln) ==
    LET athinputs == SortedPaths(la)
        hsts == SortedPaths(lh)
        icase == InputCase(athinputs)
        hcase == HstCase(hsts)
        files == [athinput |-> IF icase = "one" THEN PathOf(athinputs[1]) ELSE List(athinputs),
                  hst |-> IF hcase = "one" THEN PathOf(hsts[1]) ELSE List(hsts),
                  athdf |-> List(SortedPaths(ld)),
                  rst |-> List(SortedPaths(lr))]
        base == [basedir |-> BaseDir, basename |-> BaseDir[Len(BaseDir)], files |-> files]
        parsed == athinput(athinputs[1])
        withInput == IF icase = "one"
                     THEN base @@ [athinput |-> parsed,
                                   problem_id |-> parsed.job.problem_id,
                                   mesh |-> parsed.mesh]
                     ELSE base
        raises == \E i \in 1..Len(ln) : ~OutputNumber(ln[i]).ok
    IN  [obj |-> IF raises THEN withInput ELSE withInput @@ [nums |-> Nums(ln)],
         printed |-> InputWarning(icase) \o HstWarning(hcase),
         outcome |-> IF raises THEN "ValueError" ELSE "returned"]

Construct ==
    /\ ctor = "new"
    /\ \E la \in Listings(Glob(Patterns.athinput)),
          lh \in Listings(Glob(Patterns.hst)),
          ld \in Listings(Glob(Patterns.athdf)),
          lr \in Listings(Glob(Patterns.rst)),
          ln \in Listings(Glob(<<"*">> \o DotAthdf)) :
          LET r == Constructed(la, lh, ld, lr, ln)
          IN  /\ self' = r.obj
              /\ built' = r.obj
              /\ out' = r.printed
              /\ ctor' = r.outcome
    /\ UNCHANGED <<dir, dirExists, call>>

(***************************************************************************)
(* LoadSim.load_athdf                                                      *)
(***************************************************************************)
Idle == [pc |-> "idle", num |-> 0, fmatches |-> <<>>, ds |-> None]

\* the glob pattern of snapshot number num
SnapshotPattern(num) == <<"*", ".">> \o Format05d(num) \o DotAthdf

\* how the length checks on fmatches end
MatchOutcomeSameKind(l) ==
    IF Len(l) = 0 THEN "FileNotFoundError"
    ELSE IF Len(l) > 1 THEN "FileNotFoundError"
    ELSE "resolved"
MatchOutcome(l) ==
    IF Len(l) = 0 THEN "FileNotFoundError"
    ELSE IF Len(l) > 1 THEN "Exception"
    ELSE "resolved"

\* the attrs of the dataset
AttrsSecondFaces(dat) ==
    [MaxLevel |-> dat.MaxLevel,
     MeshBlockSize |-> dat.MeshBlockSize,
     NumCycles |-> dat.NumCycles,
     NumMeshBlocks |-> dat.NumMeshBlocks,
     RootGridSize |-> dat.RootGridSize,
     RootGridX1 |-> dat.RootGridX1,
     RootGridX2 |-> dat.RootGridX2,
     RootGridX3 |-> dat.RootGridX3,
     time |-> dat.Time,
     dx |-> dat.x1f[Len(dat.x1f)] - dat.x1f[Len(dat.x1f) - 1],
     dy |-> dat.x2f[2] - dat.x2f[1],
     dz |-> dat.x3f[2] - dat.x3f[1],
     x1min |-> dat.RootGridX1[1],
     x1max |-> dat.RootGridX1[2],
     x2min |-> dat.RootGridX2[1],
     x2max |-> dat.RootGridX2[2],
     x3min |-> dat.RootGridX3[1],
     x3max |-> dat.RootGridX3[2]]
Attrs(dat) ==
    [MaxLevel |-> dat.MaxLevel,
     MeshBlockSize |-> dat.MeshBlockSize,
     NumCycles |-> dat.NumCycles,
     NumMeshBlocks |-> dat.NumMeshBlocks,
     RootGridSize |-> dat.RootGridSize,
     RootGridX1 |-> dat.RootGridX1,
     RootGridX2 |-> dat.RootGridX2,
     RootGridX3 |-> dat.RootGridX3,
     time |-> dat.Time,
     dx |-> dat.x1f[2] - dat.x1f[1],
     dy |-> dat.x2f[2] - dat.x2f[1],
     dz |-> dat.x3f[2] - dat.x3f[1],
     x1min |-> dat.RootGridX1[1],
     x1max |-> dat.RootGridX1[2],
     x2min |-> dat.RootGridX2[1],
     x2max |-> dat.RootGridX2[2],
     x3min |-> dat.RootGridX3[1],
     x3max |-> dat.RootGridX3[2]]

\* xr.Dataset(data_vars=..., coords=..., attrs=...)
Dataset(dat) ==
    LET varnames == dat.VariableNames
    IN  [data_vars |-> [v \in {varnames[i] : i \in 1..Len(varnames)} |->
                            [dims |-> <<"z", "y", "x">>, data |-> dat[v]]],
         coords |-> [x |-> dat.x1v, y |-> dat.x2v, z |-> dat.x3v],
         attrs |-> Attrs(dat)]

\* the dataset the call of caller c returns
LoadedDatasetStale(c) ==
    IF c # 1 /\ call[1].pc = "returned"
    THEN call[1].ds
    ELSE Dataset(athdf(call[c].fmatches[1]))
LoadedDataset(c) == Dataset(athdf(call[c].fmatches[1]))

\* the object after a call of load_athdf has run
SelfAfterLoadRecordsNum(c) ==
    IF "nums" \in DOMAIN self
    THEN [self EXCEPT !.nums = SortSeq(Append(@, call[c].num), <)]
    ELSE self
SelfAfterLoad(c) == self

\* lines 93-97: glob for the snapshot, raise unless exactly one file matches
LoadResolve(c, num) ==
    /\ ctor = "returned"
    /\ call[c].pc # "resolved"
    /\ \E l \in Listings(Glob(SnapshotPattern(num))) :
          call' = [call EXCEPT ![c] =
                      [pc |-> MatchOutcome(l),
                       num |-> num,
                       fmatches |-> IF MatchOutcome(l) = "resolved" THEN l ELSE <<>>,
                       ds |-> None]]
    /\ UNCHANGED <<dir, dirExists, ctor, self, out, built>>

\* lines 100-132: decode the file, build the dataset, return it
LoadReturn(c) ==
    /\ call[c].pc = "resolved"
    /\ call' = [call EXCEPT ![c] =
                   [pc |-> "returned",
                    num |-> call[c].num,
                    fmatches |-> <<>>,
                    ds |-> LoadedDataset(c)]]
    /\ self' = SelfAfterLoad(c)
    /\ UNCHANGED <<dir, dirExists, ctor, out, built>>

(***************************************************************************)
(* The specification.                                                      *)
(***************************************************************************)
Init ==
    /\ dir \in {S \in SUBSET FileNames : Cardinality(S) <= MaxFiles}
    /\ dirExists \in BOOLEAN
    /\ dirExists \/ dir = {}
    /\ ctor = "new"
    /\ self = <<>>
    /\ built = <<>>
    /\ out = <<>>
    /\ call = [c \in Callers |-> Idle]

Next ==
    \/ Construct
    \/ \E c \in Callers, num \in LoadNums : LoadResolve(c, num)
    \/ \E c \in Callers : LoadReturn(c)

Spec == Init /\ [][Next]_vars

(***************************************************************************)
(* Vocabulary of the properties, stated on the directory contents and      *)
(* independently of the glob, strip and format operators above.            *)
(***************************************************************************)
Finished == ctor # "new"

Present == IF dirExists THEN dir ELSE {}

StartsWith(s, pre) == Len(s) >= Len(pre) /\ SubSeq(s, 1, Len(pre)) = pre

EndsWith(s, suf) == Len(s) >= Len(suf) /\ SubSeq(s, Len(s) - Len(suf) + 1, Len(s)) = suf

ConfigFiles == {f \in Present : StartsWith(f, AthinputDot)}
HistoryFiles == {f \in Present : EndsWith(f, DotHst)}
SnapshotFiles == {f \in Present : EndsWith(f, DotAthdf)}
CheckpointFiles == {f \in Present : EndsWith(f, DotRst)}

\* the name without the snapshot extension
Stem(f) == SubSeq(f, 1, Len(f) - Len(DotAthdf))

AllDigits(s) == \A i \in 1..Len(s) : IsDigit(s[i])

\* f carries a 5-digit zero-padded index immediately before the extension
CarriesIndex(f) ==
    /\ Len(Stem(f)) >= 5
    /\ AllDigits(SubSeq(Stem(f), Len(Stem(f)) - 4, Len(Stem(f))))
    /\ Len(Stem(f)) > 5 => ~IsDigit(Stem(f)[Len(Stem(f)) - 5])

IndexOf(f) ==
    LET d == SubSeq(Stem(f), Len(Stem(f)) - 4, Len(Stem(f)))
    IN  10000 * DigitVal(d[1]) + 1000 * DigitVal(d[2]) + 100 * DigitVal(d[3])
        + 10 * DigitVal(d[4]) + DigitVal(d[5])

\* the digits between the last dot of the stem and the extension
RECURSIVE AfterLastDot(_)
AfterLastDot(s) ==
    IF s = <<>> \/ s[Len(s)] = "." THEN <<>>
    ELSE AfterLastDot(SubSeq(s, 1, Len(s) - 1)) \o <<s[Len(s)]>>

\* f is named <anything>.<num as at least 5 zero-padded digits>.athdf
NamedFor(f, num) ==
    LET field == AfterLastDot(Stem(f))
    IN  /\ EndsWith(f, DotAthdf)
        /\ Len(Stem(f)) > Len(field)
        /\ field # <<>>
        /\ AllDigits(field)
        /\ DigitsValue(field) = num
        /\ Len(field) = 5 \/ (Len(field) > 5 /\ field[1] # "0")

FilesFor(num) == {f \in Present : NamedFor(f, num)}

Ascending(q) == \A i \in 1..(Len(q) - 1) : q[i] <= q[i + 1]

Count(q, x) == Cardinality({i \in 1..Len(q) : q[i] = x})

Elements(q) == {q[i] : i \in 1..Len(q)}

Has(attr) == attr \in DOMAIN self

InCall(c) == call[c].pc # "idle"

(***************************************************************************)
(* C1: constructing the catalog never raises, whatever names the base      *)
(* directory holds (the parser of the input file being assumed to          *)
(* succeed): the constructor always runs to its return.                    *)
(***************************************************************************)
C1_DiscoveryNeverRaises == ctor \in {"new", "returned"}

(***************************************************************************)
(* C2: load_athdf(num) ends in FileNotFoundError when no file of the       *)
(* directory is named for num, in the other failure (Exception) when more  *)
(* than one is, and goes on to decode only when exactly one is.            *)
(***************************************************************************)
C2_LoadResolutionThreeWay ==
    \A c \in Callers :
        InCall(c) =>
            LET n == Cardinality(FilesFor(call[c].num))
            IN  /\ call[c].pc = "FileNotFoundError" <=> n = 0
                /\ call[c].pc = "Exception" <=> n > 1
                /\ call[c].pc \in {"resolved", "returned"} <=> n = 1

C2_Witness ==
    \E c, d \in Callers :
        /\ call[c].pc = "Exception"
        /\ call[d].pc = "FileNotFoundError"
        /\ Cardinality(FilesFor(call[c].num)) = 2

(***************************************************************************)
(* C3: when every snapshot file carries a 5-digit zero-padded index before *)
(* the extension, the constructor returns and nums is the ascending        *)
(* sequence of those indices, one entry per file and duplicates kept,      *)
(* whatever the order in which the file system lists the files.            *)
(***************************************************************************)
C3_NumsSortedOnePerFile ==
    (Finished /\ \A f \in SnapshotFiles : CarriesIndex(f)) =>
        /\ ctor = "returned"
        /\ Has("nums")
        /\ Ascending(self.nums)
        /\ Len(self.nums) = Cardinality(SnapshotFiles)
        /\ \A i \in Elements(self.nums) \cup {IndexOf(f) : f \in SnapshotFiles} :
              Count(self.nums, i) = Cardinality({f \in SnapshotFiles : IndexOf(f) = i})

C3_Witness ==
    /\ ctor = "returned"
    /\ SnapshotFiles = {Athdf0, Athdf3, Athdf10}
    /\ self.nums = <<0, 3, 10>>

(***************************************************************************)
(* C4: with exactly one configuration file and exactly one history file,   *)
(* files['athinput'] and files['hst'] are each the single bare path,       *)
(* athinput, problem_id and mesh are set from the parsed input file, and   *)
(* nothing is printed.                                                     *)
(***************************************************************************)
C4_UniqueRolesResolveSilently ==
    (Finished /\ Cardinality(ConfigFiles) = 1 /\ Cardinality(HistoryFiles) = 1) =>
        /\ self.files.athinput.kind = "path"
        /\ self.files.athinput.path \in ConfigFiles
        /\ self.files.hst.kind = "path"
        /\ self.files.hst.path \in HistoryFiles
        /\ Has("athinput") /\ Has("problem_id") /\ Has("mesh")
        /\ self.athinput = athinput(self.files.athinput.path)
        /\ self.problem_id = self.athinput.job.problem_id
        /\ self.mesh = self.athinput.mesh
        /\ out = <<>>

C4_Witness ==
    /\ ctor = "returned"
    /\ dir = {InputB, HstP, Athdf3}
    /\ self.problem_id = "q"
    /\ out = <<>>

(***************************************************************************)
(* C5: with zero or with two or more configuration files, athinput,        *)
(* problem_id and mesh are not set, files['athinput'] stays the sorted     *)
(* list of all matches, and a warning about the input file is printed,     *)
(* however the history role resolves.                                      *)
(***************************************************************************)
C5_UnresolvedConfigLeavesFieldsAbsent ==
    (Finished /\ Cardinality(ConfigFiles) # 1) =>
        /\ ~Has("athinput") /\ ~Has("problem_id") /\ ~Has("mesh")
        /\ self.files.athinput.kind = "list"
        /\ Len(self.files.athinput.items) = Cardinality(ConfigFiles)
        /\ Elements(self.files.athinput.items) = ConfigFiles
        /\ \A i \in 1..(Len(self.files.athinput.items) - 1) :
              StrLess(self.files.athinput.items[i], self.files.athinput.items[i + 1])
        /\ out # <<>>
        /\ out[1] = IF ConfigFiles = {} THEN "WARNING: found no input file"
                    ELSE "WARNING: found more than one input file"

C5_Witness ==
    /\ ctor = "returned"
    /\ dir = {InputA, InputB, HstQ}
    /\ self.files.hst.kind = "path"
    /\ out = <<"WARNING: found more than one input file">>

(***************************************************************************)
(* C6: on an empty (or missing) directory the constructor returns, the     *)
(* four file lists are empty, athinput, problem_id and mesh are not set,   *)
(* nums is empty, and exactly two warnings are printed: one for the input  *)
(* file and one for the history dump.                                      *)
(***************************************************************************)
C6_EmptyDirectory ==
    (Finished /\ Present = {}) =>
        /\ ctor = "returned"
        /\ \A k \in {"athinput", "hst", "athdf", "rst"} : self.files[k] = List(<<>>)
        /\ DOMAIN self.files = {"athinput", "hst", "athdf", "rst"}
        /\ ~Has("athinput") /\ ~Has("problem_id") /\ ~Has("mesh")
        /\ self.nums = <<>>
        /\ out = <<"WARNING: found no input file", "WARNING: found no history dump">>

C6_Witness ==
    /\ ctor = "returned"
    /\ dirExists
    /\ dir = {}
    /\ Len(out) = 2

(***************************************************************************)
(* C7: a returned dataset has dx, dy, dz equal to the difference of the    *)
(* first two face positions of its axis, x*min and x*max equal to the two  *)
(* elements of the decoded RootGridX*, and RootGridX* copied unchanged.    *)
(***************************************************************************)
C7_DerivedAttributes ==
    \A c \in Callers :
        (call[c].pc = "returned" /\ Cardinality(FilesFor(call[c].num)) = 1) =>
            LET raw == athdf(CHOOSE f \in FilesFor(call[c].num) : TRUE)
                a == call[c].ds.attrs
            IN  /\ a.dx = raw.x1f[2] - raw.x1f[1]
                /\ a.dy = raw.x2f[2] - raw.x2f[1]
                /\ a.dz = raw.x3f[2] - raw.x3f[1]
                /\ a.x1min = raw.RootGridX1[1] /\ a.x1max = raw.RootGridX1[2]
                /\ a.x2min = raw.RootGridX2[1] /\ a.x2max = raw.RootGridX2[2]
                /\ a.x3min = raw.RootGridX3[1] /\ a.x3max = raw.RootGridX3[2]
                /\ a.RootGridX1 = raw.RootGridX1
                /\ a.RootGridX2 = raw.RootGridX2
                /\ a.RootGridX3 = raw.RootGridX3

C7_Witness ==
    \E c \in Callers :
        /\ call[c].pc = "returned"
        /\ call[c].num = 3
        /\ FilesFor(3) = {Athdf3}
        /\ athdf(Athdf3).x1f = <<0, 50, 100>>
        /\ call[c].ds.attrs.dx = 50
        /\ call[c].ds.attrs.x1min = 0
        /\ call[c].ds.attrs.x1max = 100

(***************************************************************************)
(* C8: no call of load_athdf changes the catalog: whatever the callers     *)
(* have done, and in whatever interleaving, the object equals what the     *)
(* constructor left, and every call ends as it would have run alone.       *)
(***************************************************************************)
LoadAlone(num) ==
    LET l == CHOOSE l \in Listings(Glob(SnapshotPattern(num))) : TRUE
    IN  IF MatchOutcome(l) = "resolved"
        THEN [pc |-> "returned", ds |-> Dataset(athdf(l[1]))]
        ELSE [pc |-> MatchOutcome(l), ds |-> None]

C8_LoadLeavesCatalogUnchanged ==
    Finished =>
        /\ self = built
        /\ \A c \in Callers :
              InCall(c) =>
                  /\ call[c].pc = "resolved" => LoadAlone(call[c].num).pc = "returned"
                  /\ call[c].pc # "resolved" =>
                        /\ call[c].pc = LoadAlone(call[c].num).pc
                        /\ call[c].ds = LoadAlone(call[c].num).ds

C8_Witness ==
    \E c, d \in Callers :
        /\ call[c].pc = "returned"
        /\ call[d].pc = "resolved"
        /\ call[c].num # call[d].num
        /\ self = built
        /\ Has("nums")

(***************************************************************************)
(* C9: two loads of the same snapshot number return equal datasets (the    *)
(* same data variables, axes and 18 attributes), and the catalog keeps no  *)
(* dataset.                                                                *)
(***************************************************************************)
C9_SameIndexSameDataset ==
    /\ DOMAIN self \subseteq {"basedir", "basename", "files", "athinput", "problem_id", "mesh", "nums"}
    /\ \A c, d \in Callers :
          (call[c].pc = "returned" /\ call[d].pc = "returned" /\ call[c].num = call[d].num) =>
              /\ DOMAIN call[c].ds.data_vars = DOMAIN call[d].ds.data_vars
              /\ \A ax \in {"x", "y", "z"} :
                    Len(call[c].ds.coords[ax]) = Len(call[d].ds.coords[ax])
              /\ call[c].ds.attrs = call[d].ds.attrs
              /\ Cardinality(DOMAIN call[c].ds.attrs) = 18
              /\ call[c].ds = call[d].ds

C9_Witness ==
    \E c, d \in Callers :
        /\ c # d
        /\ call[c].pc = "returned"
        /\ call[d].pc = "returned"
        /\ call[c].num = call[d].num
        /\ call[c].ds = call[d].ds
        /\ Cardinality(SnapshotFiles) > 1

(***************************************************************************)
(* C10: discovery and load agree on the numbers that exist: once the       *)
(* constructor has returned, load_athdf(i) ends in FileNotFoundError       *)
(* exactly when i is not an element of nums.                               *)
(***************************************************************************)
C10_DiscoveryAndLoadAgree ==
    ctor = "returned" =>
        \A c \in Callers :
            InCall(c) =>
                (call[c].pc = "FileNotFoundError" <=> call[c].num \notin Elements(self.nums))

====
